---- MODULE Spec2Model ----
(***************************************************************************)
(* Model of Neolix_eduVehicleFactory                                       *)
(* (modules/canbus_vehicle/neolix_edu/neolix_edu_vehicle_factory.cc): the  *)
(* orchestrator that builds, starts, stops and drives the CAN client, the  *)
(* message manager (codec), the CAN receiver, the CAN sender and the       *)
(* vehicle controller.                                                     *)
(*                                                                         *)
(* Every facade method is one action.  The body of a method is a function  *)
(* from the object's state (a record, see St) and the outcomes of the      *)
(* collaborator calls it makes to the state after the call; the action     *)
(* commits that record to the variables.  The collaborators (CanClient,    *)
(* CanReceiver, CanSender, VehicleController, MessageManager, cyber        *)
(* Writer) are not part of the file: they are modelled by their contracts, *)
(* and the result of each of their fallible calls is an input.             *)
(*                                                                         *)
(* Dereferencing a null unique_ptr (can_client_, vehicle_controller_, the  *)
(* writers) is undefined behaviour: the model takes it as a choice between *)
(* the process crashing and the call coming back with an arbitrary result  *)
(* and no effect.                                                          *)
(***************************************************************************)
EXTENDS Integers, Sequences, FiniteSets, TLC

\* Number of Init calls the model follows (each creates new instances).
MaxInits == 2
VARIABLES
  can_client_,                    \* [id, running]; id 0 is the null pointer
  message_manager_,               \* instance id, 0 is the null pointer
  can_receiver_,                  \* [is_init, client, mm, running]
  can_sender_,                    \* [is_init, client, mm, running, msgs]
  vehicle_controller_,            \* [id, is_init, sender, mm, running, mode, law]
  node_,                          \* the cyber node was created
  chassis_detail_writer_,         \* the received-state writer exists
  chassis_detail_sender_writer_,  \* the sender-state writer exists
  recv_data,                      \* codec: latest decoded (received) snapshot
  sender_data,                    \* codec: latest staged-for-send snapshot
  nInits,                         \* instances created so far
  lastOp,                         \* the last facade call
  calls,                          \* collaborator calls it made, in order
  trail,                          \* what the calls before it were (see NextTrail)
  phase,                          \* where the caller is in Init, Start, Stop (see NextPhase)
  ret,                            \* what the last facade call returned
  ub,                             \* the last facade call dereferenced a null pointer
  crashed,                        \* the process is gone
  codec,                          \* field by field: codec[k] is snapshot k, a pair
  mutex,                          \* field by field: who holds the lock of snapshot k
  filler,                         \* the thread that fills snapshot k: [pc, val]
  publisher,                      \* the scheduler thread inside a publish method
  channel                         \* last message written to the channel of kind k

vars == <<can_client_, message_manager_, can_receiver_, can_sender_,
          vehicle_controller_, node_, chassis_detail_writer_,
          chassis_detail_sender_writer_, recv_data, sender_data, nInits,
          lastOp, calls, trail, phase, ret, ub, crashed,
          codec, mutex, filler, publisher, channel>>

\* The variables of the field-by-field view of the two snapshots, which only
\* the interleaved specification at the end moves.
concVars == <<codec, mutex, filler, publisher, channel>>

\* Contents of a snapshot or a command: two are enough to tell a stale copy
\* from the latest one.
Values == {"v0", "v1"}
UpdateCommandOps == {"UpdateCommand(ControlCommand)", "UpdateCommand(ChassisCommand)"}
DrivingModes == {"COMPLETE_MANUAL", "COMPLETE_AUTO_DRIVE"}
\* The outgoing messages the Neolix controller registers with the sender.
ProtocolSet == {"ads_brake_command_46", "ads_drive_command_50", "ads_eps_command_56"}

NullClient == [id |-> 0, running |-> FALSE]
NullController ==
  [id |-> 0, is_init |-> FALSE, sender |-> FALSE, mm |-> 0, running |-> FALSE,
   mode |-> "COMPLETE_MANUAL", law |-> "v0"]
NoMessage == [kind |-> "none", val |-> "v0"]

\* The object and its surroundings as one record: what a method body works on.
St ==
  [can_client_ |-> can_client_, message_manager_ |-> message_manager_,
   can_receiver_ |-> can_receiver_, can_sender_ |-> can_sender_,
   vehicle_controller_ |-> vehicle_controller_, node_ |-> node_,
   chassis_detail_writer_ |-> chassis_detail_writer_,
   chassis_detail_sender_writer_ |-> chassis_detail_sender_writer_,
   recv_data |-> recv_data, sender_data |-> sender_data,
   calls |-> <<>>, rc |-> TRUE, ret |-> "void", ub |-> FALSE, crashed |-> FALSE]

Commit(s) ==
  /\ can_client_' = s.can_client_
  /\ message_manager_' = s.message_manager_
  /\ can_receiver_' = s.can_receiver_
  /\ can_sender_' = s.can_sender_
  /\ vehicle_controller_' = s.vehicle_controller_
  /\ node_' = s.node_
  /\ chassis_detail_writer_' = s.chassis_detail_writer_
  /\ chassis_detail_sender_writer_' = s.chassis_detail_sender_writer_
  /\ recv_data' = s.recv_data
  /\ sender_data' = s.sender_data
  /\ calls' = s.calls
  /\ ret' = s.ret
  /\ ub' = s.ub
  /\ crashed' = s.crashed

\* History kept for the call sequences the properties speak of:
\*   "C"   ClearSendProtocol emptied a non-empty set ("C0": an empty one),
\*   "CI"  IsSendProtocolClear came right after a ClearSendProtocol,
\*   "CA"  AddSendProtocol came right after "C",
\*   "CAI" IsSendProtocolClear came right after "CA";
\*   "UF"  an UpdateCommand whose controller Update failed,
\*   "UFO" an UpdateCommand right after it whose Update succeeded,
\*   "UFH" an UpdateHeartbeat right after "UF";
\*   "S"   a Stop, "SS" a Stop right after a Stop;
\*   "TF"  a Start that returned false, "TFT" a Start right after it.
\* Any other call starts over.
NextTrail(op, s) ==
  IF s.ub THEN "" ELSE
  CASE op = "ClearSendProtocol" -> IF can_sender_.msgs # {} THEN "C" ELSE "C0"
    [] op = "AddSendProtocol" -> IF trail = "C" THEN "CA" ELSE ""
    [] op = "IsSendProtocolClear" ->
         IF trail = "CA" THEN "CAI" ELSE IF trail \in {"C", "C0"} THEN "CI" ELSE ""
    [] op \in UpdateCommandOps ->
         IF ~s.rc THEN "UF" ELSE IF trail = "UF" THEN "UFO" ELSE ""
    [] op = "UpdateHeartbeat" -> IF trail = "UF" THEN "UFH" ELSE ""
    [] op = "Stop" -> IF trail \in {"S", "SS"} THEN "SS" ELSE "S"
    [] op = "Start" ->
         IF trail = "TF" THEN "TFT" ELSE IF s.ret = "false" THEN "TF" ELSE ""
    [] OTHER -> ""

\* History of the lifecycle calls:
\*   "uninit"  no Init yet, or the last Init returned false,
\*   "inited"  the last Init returned true and no Start has returned true
\*             since, or a Stop came after it,
\*   "started" a Start has returned true since the last Init, which returned
\*             true, and there was no Stop since.
NextPhase(op, s) ==
  CASE op = "Init" -> IF s.ret = "true" THEN "inited" ELSE "uninit"
    [] op = "Start" ->
         IF phase # "uninit" /\ s.ret = "true" THEN "started" ELSE phase
    [] op = "Stop" -> IF phase = "started" THEN "inited" ELSE phase
    [] OTHER -> phase

\* A facade call: the caller is alive, the body runs, the call is recorded.
Facade(op, s) ==
  /\ ~crashed
  /\ Commit(s)
  /\ lastOp' = op
  /\ trail' = NextTrail(op, s)
  /\ phase' = NextPhase(op, s)
  /\ UNCHANGED concVars

\* A collaborator call is logged with its name, whether it succeeded (a
\* void call counts as succeeded) and, for a Write, the message written.
CallA(s, name, ok, arg) ==
  [s EXCEPT !.calls = Append(@, [fn |-> name, ok |-> ok, arg |-> arg]), !.rc = ok]
CallR(s, name, ok) == CallA(s, name, ok, NoMessage)
Call(s, name) == CallR(s, name, TRUE)
Return(s, r) == [s EXCEPT !.ret = r]
Bool(b) == IF b THEN "true" ELSE "false"

\* A null pointer is dereferenced: the process dies, or the method comes
\* back with the result r and nothing more done.
Undefined(s, crash, r) ==
  [s EXCEPT !.ub = TRUE, !.crashed = crash, !.ret = IF crash THEN "none" ELSE r]
\* What undefined behaviour turns into: u.crash, and u.r for the result of a
\* method that returns a bool.
UBVoid == [crash : BOOLEAN, r : {FALSE}]
UBBool == [crash : BOOLEAN, r : BOOLEAN]

----------------------------------------------------------------------------
(* Collaborator contracts                                                  *)

\* CanClientFactory::CreateCANClient: a new client, or null.
CreateCANClient(s, ok, n) ==
  CallR([s EXCEPT !.can_client_ =
           IF ok THEN [id |-> n, running |-> FALSE] ELSE NullClient],
        "CreateCANClient", ok)

\* CanReceiver::Init(client, message manager, log): OK wires the receiver.
ReceiverInit(s, ok) ==
  CallR(IF ok
       THEN [s EXCEPT !.can_receiver_.is_init = TRUE,
                      !.can_receiver_.client = s.can_client_.id,
                      !.can_receiver_.mm = s.message_manager_]
       ELSE s,
       "can_receiver_.Init", ok)

\* CanSender::Init(client, message manager, log): OK wires the sender.
SenderInit(s, ok) ==
  CallR(IF ok
       THEN [s EXCEPT !.can_sender_.is_init = TRUE,
                      !.can_sender_.client = s.can_client_.id,
                      !.can_sender_.mm = s.message_manager_]
       ELSE s,
       "can_sender_.Init", ok)

\* VehicleController::Init(params, &can_sender_, message manager): OK wires
\* the controller and registers its outgoing messages with the sender.
ControllerInit(s, ok) ==
  CallR(IF ok
       THEN [s EXCEPT !.vehicle_controller_.is_init = TRUE,
                      !.vehicle_controller_.sender = TRUE,
                      !.vehicle_controller_.mm = s.message_manager_,
                      !.can_sender_.msgs = @ \cup ProtocolSet]
       ELSE s,
       "vehicle_controller_.Init", ok)

----------------------------------------------------------------------------
(* Neolix_eduVehicleFactory::Init                                          *)

\* Outcomes of the six fallible steps.  A step after the first failing one
\* is not run and has no outcome, so it is written as FALSE.
InitOutcomes == {o \in [1..6 -> BOOLEAN] : \A i, j \in 1..6 : (i < j /\ ~o[i]) => ~o[j]}

\* CreateMessageManager and CreateVehicleController build a new object; Init
\* tests each result against nullptr, and the null result is an input here
\* so that both branches of those tests are followed.  A new codec starts with
\* empty snapshots.
CreateMessageManager(s, ok, n) ==
  CallR(IF ok
        THEN [s EXCEPT !.message_manager_ = n, !.recv_data = "v0", !.sender_data = "v0"]
        ELSE [s EXCEPT !.message_manager_ = 0],
        "CreateMessageManager", ok)

CreateVehicleController(s, ok, n) ==
  CallR([s EXCEPT !.vehicle_controller_ =
           IF ok THEN [NullController EXCEPT !.id = n] ELSE NullController],
        "CreateVehicleController", ok)

CreateWriters(s) ==
  Call(Call(Call([s EXCEPT !.node_ = TRUE,
                           !.chassis_detail_writer_ = TRUE,
                           !.chassis_detail_sender_writer_ = TRUE],
                 "CreateNode"),
            "CreateWriter(chassis_detail)"),
       "CreateWriter(chassis_detail_sender)")

\* Init that gives the transport handle back when a later step fails.
InitBodyRelease(s, o, n) ==
  LET s1 == CreateCANClient(s, o[1], n) IN
  IF s1.can_client_.id = 0 THEN Return(s1, "false") ELSE
  LET s2 == CreateMessageManager(s1, o[2], n) IN
  IF s2.message_manager_ = 0
  THEN Return([s2 EXCEPT !.can_client_ = NullClient], "false") ELSE
  LET s3 == ReceiverInit(s2, o[3]) IN
  IF ~s3.rc THEN Return([s3 EXCEPT !.can_client_ = NullClient], "false") ELSE
  LET s4 == SenderInit(s3, o[4]) IN
  IF ~s4.rc THEN Return([s4 EXCEPT !.can_client_ = NullClient], "false") ELSE
  LET s5 == CreateVehicleController(s4, o[5], n) IN
  IF s5.vehicle_controller_.id = 0
  THEN Return([s5 EXCEPT !.can_client_ = NullClient], "false") ELSE
  LET s6 == ControllerInit(s5, o[6]) IN
  IF ~s6.rc THEN Return([s6 EXCEPT !.can_client_ = NullClient], "false") ELSE
  Return(CreateWriters(s6), "true")

\* Init that registers the channels before it builds the controller.
InitBodyEarlyWriters(s, o, n) ==
  LET s1 == CreateCANClient(s, o[1], n) IN
  IF s1.can_client_.id = 0 THEN Return(s1, "false") ELSE
  LET s2 == CreateMessageManager(s1, o[2], n) IN
  IF s2.message_manager_ = 0 THEN Return(s2, "false") ELSE
  LET s3 == ReceiverInit(s2, o[3]) IN
  IF ~s3.rc THEN Return(s3, "false") ELSE
  LET s4 == SenderInit(s3, o[4]) IN
  IF ~s4.rc THEN Return(s4, "false") ELSE
  LET s5 == CreateVehicleController(CreateWriters(s4), o[5], n) IN
  IF s5.vehicle_controller_.id = 0 THEN Return(s5, "false") ELSE
  LET s6 == ControllerInit(s5, o[6]) IN
  IF ~s6.rc THEN Return(s6, "false") ELSE
  Return(s6, "true")

\* Init without the return after a failed can_sender_.Init.
InitBodyNoReturn(s, o, n) ==
  LET s1 == CreateCANClient(s, o[1], n) IN
  IF s1.can_client_.id = 0 THEN Return(s1, "false") ELSE
  LET s2 == CreateMessageManager(s1, o[2], n) IN
  IF s2.message_manager_ = 0 THEN Return(s2, "false") ELSE
  LET s3 == ReceiverInit(s2, o[3]) IN
  IF ~s3.rc THEN Return(s3, "false") ELSE
  LET s4 == SenderInit(s3, o[4]) IN
  LET s5 == CreateVehicleController(s4, o[5], n) IN
  IF s5.vehicle_controller_.id = 0 THEN Return(s5, "false") ELSE
  LET s6 == ControllerInit(s5, o[6]) IN
  IF ~s6.rc THEN Return(s6, "false") ELSE
  Return(CreateWriters(s6), "true")

\* o[i] is the outcome of the i-th fallible step, n the id of the instances
\* this call creates.
\* Init that creates the codec after it has initialized the receiver.
InitBodyCodecLate(s, o, n) ==
  LET s1 == CreateCANClient(s, o[1], n) IN
  IF s1.can_client_.id = 0 THEN Return(s1, "false") ELSE
  LET s2 == ReceiverInit(s1, o[3]) IN
  IF ~s2.rc THEN Return(s2, "false") ELSE
  LET s3 == CreateMessageManager(s2, o[2], n) IN
  IF s3.message_manager_ = 0 THEN Return(s3, "false") ELSE
  LET s4 == SenderInit(s3, o[4]) IN
  IF ~s4.rc THEN Return(s4, "false") ELSE
  LET s5 == CreateVehicleController(s4, o[5], n) IN
  IF s5.vehicle_controller_.id = 0 THEN Return(s5, "false") ELSE
  LET s6 == ControllerInit(s5, o[6]) IN
  IF ~s6.rc THEN Return(s6, "false") ELSE
  Return(CreateWriters(s6), "true")

InitBody(s, o, n) ==
  LET s1 == CreateCANClient(s, o[1], n) IN
  IF s1.can_client_.id = 0 THEN Return(s1, "false") ELSE
  LET s2 == CreateMessageManager(s1, o[2], n) IN
  IF s2.message_manager_ = 0 THEN Return(s2, "false") ELSE
  LET s3 == ReceiverInit(s2, o[3]) IN
  IF ~s3.rc THEN Return(s3, "false") ELSE
  LET s4 == SenderInit(s3, o[4]) IN
  IF ~s4.rc THEN Return(s4, "false") ELSE
  LET s5 == CreateVehicleController(s4, o[5], n) IN
  IF s5.vehicle_controller_.id = 0 THEN Return(s5, "false") ELSE
  LET s6 == ControllerInit(s5, o[6]) IN
  IF ~s6.rc THEN Return(s6, "false") ELSE
  Return(CreateWriters(s6), "true")

DoInit ==
  /\ nInits < MaxInits
  /\ \E o \in InitOutcomes : Facade("Init", InitBody(St, o, nInits + 1))
  /\ nInits' = nInits + 1

----------------------------------------------------------------------------
(* Collaborator contracts used by Start and Stop                           *)

\* CanClient::Start: OK opens the device.
ClientStart(s, ok) ==
  CallR(IF ok THEN [s EXCEPT !.can_client_.running = TRUE] ELSE s,
        "can_client_.Start", ok)
\* CanReceiver::Start: OK launches the receive thread.
ReceiverStart(s, ok) ==
  CallR(IF ok THEN [s EXCEPT !.can_receiver_.running = TRUE] ELSE s,
        "can_receiver_.Start", ok)
\* CanSender::Start: OK launches the send thread.
SenderStart(s, ok) ==
  CallR(IF ok THEN [s EXCEPT !.can_sender_.running = TRUE] ELSE s,
        "can_sender_.Start", ok)
\* VehicleController::Start: true launches the controller's watchdog.
ControllerStart(s, ok) ==
  CallR(IF ok THEN [s EXCEPT !.vehicle_controller_.running = TRUE] ELSE s,
        "vehicle_controller_.Start", ok)

\* The Stop of each collaborator returns nothing and leaves it stopped; what
\* is logged as its outcome is whether there was anything to stop (a Stop of
\* a stopped component only logs an error).
SenderStop(s) ==
  CallR([s EXCEPT !.can_sender_.running = FALSE], "can_sender_.Stop",
        s.can_sender_.running)
ReceiverStop(s) ==
  CallR([s EXCEPT !.can_receiver_.running = FALSE], "can_receiver_.Stop",
        s.can_receiver_.running)
ClientStop(s) ==
  CallR([s EXCEPT !.can_client_.running = FALSE], "can_client_.Stop",
        s.can_client_.running)
ControllerStop(s) ==
  CallR([s EXCEPT !.vehicle_controller_.running = FALSE], "vehicle_controller_.Stop",
        s.vehicle_controller_.running)

----------------------------------------------------------------------------
(* Neolix_eduVehicleFactory::Start and Stop                                *)

StartOutcomes == {o \in [1..4 -> BOOLEAN] : \A i, j \in 1..4 : (i < j /\ ~o[i]) => ~o[j]}

\* Start that stops what it started when the sender does not start.
StartBodyRollback(s, o, u) ==
  IF s.can_client_.id = 0 THEN Undefined(s, u.crash, Bool(u.r)) ELSE
  LET s1 == ClientStart(s, o[1]) IN
  IF ~s1.rc THEN Return(s1, "false") ELSE
  LET s2 == ReceiverStart(s1, o[2]) IN
  IF ~s2.rc THEN Return(s2, "false") ELSE
  LET s3 == SenderStart(s2, o[3]) IN
  IF ~s3.rc
  THEN Return([s3 EXCEPT !.can_receiver_.running = FALSE,
                         !.can_client_.running = FALSE], "false") ELSE
  IF s3.vehicle_controller_.id = 0 THEN Undefined(s3, u.crash, Bool(u.r)) ELSE
  LET s4 == ControllerStart(s3, o[4]) IN
  IF ~s4.rc THEN Return(s4, "false") ELSE
  Return(s4, "true")

\* Start that does not look at the result of can_receiver_.Start.
StartBodyIgnoresReceiver(s, o, u) ==
  IF s.can_client_.id = 0 THEN Undefined(s, u.crash, Bool(u.r)) ELSE
  LET s1 == ClientStart(s, o[1]) IN
  IF ~s1.rc THEN Return(s1, "false") ELSE
  LET s2 == ReceiverStart(s1, FALSE) IN
  LET s3 == SenderStart(s2, o[3]) IN
  IF ~s3.rc THEN Return(s3, "false") ELSE
  IF s3.vehicle_controller_.id = 0 THEN Undefined(s3, u.crash, Bool(u.r)) ELSE
  LET s4 == ControllerStart(s3, o[4]) IN
  IF ~s4.rc THEN Return(s4, "false") ELSE
  Return(s4, "true")

StartBody(s, o, u) ==
  IF s.can_client_.id = 0 THEN Undefined(s, u.crash, Bool(u.r)) ELSE
  LET s1 == ClientStart(s, o[1]) IN
  IF ~s1.rc THEN Return(s1, "false") ELSE
  LET s2 == ReceiverStart(s1, o[2]) IN
  IF ~s2.rc THEN Return(s2, "false") ELSE
  LET s3 == SenderStart(s2, o[3]) IN
  IF ~s3.rc THEN Return(s3, "false") ELSE
  IF s3.vehicle_controller_.id = 0 THEN Undefined(s3, u.crash, Bool(u.r)) ELSE
  LET s4 == ControllerStart(s3, o[4]) IN
  IF ~s4.rc THEN Return(s4, "false") ELSE
  Return(s4, "true")

DoStart ==
  /\ \E o \in StartOutcomes, u \in UBBool : Facade("Start", StartBody(St, o, u))
  /\ UNCHANGED nInits

\* Stop that gives up when the sender was not running.
StopBodyGuarded(s, u) ==
  LET s1 == SenderStop(s) IN
  IF ~s1.rc THEN Return(s1, "void") ELSE
  LET s2 == ReceiverStop(s1) IN
  IF s2.can_client_.id = 0 THEN Undefined(s2, u.crash, "void") ELSE
  LET s3 == ClientStop(s2) IN
  IF s3.vehicle_controller_.id = 0 THEN Undefined(s3, u.crash, "void") ELSE
  Return(ControllerStop(s3), "void")

\* Stop that leaves the receiver alone.
StopBodyKeepsReceiver(s, u) ==
  LET s2 == SenderStop(s) IN
  IF s2.can_client_.id = 0 THEN Undefined(s2, u.crash, "void") ELSE
  LET s3 == ClientStop(s2) IN
  IF s3.vehicle_controller_.id = 0 THEN Undefined(s3, u.crash, "void") ELSE
  Return(ControllerStop(s3), "void")

StopBody(s, u) ==
  LET s2 == ReceiverStop(SenderStop(s)) IN
  IF s2.can_client_.id = 0 THEN Undefined(s2, u.crash, "void") ELSE
  LET s3 == ClientStop(s2) IN
  IF s3.vehicle_controller_.id = 0 THEN Undefined(s3, u.crash, "void") ELSE
  Return(ControllerStop(s3), "void")

DoStop ==
  /\ \E u \in UBVoid : Facade("Stop", StopBody(St, u))
  /\ UNCHANGED nInits

----------------------------------------------------------------------------
(* Collaborator contracts used by the per-tick methods                     *)

\* VehicleController::Update(command): OK takes the command into the control
\* law (and, as the command asks, the driving mode) and stages the frames for
\* it; an error leaves the controller as it was.
ControllerUpdate(s, ok, cmd, mode) ==
  CallR(IF ok
        THEN [s EXCEPT !.vehicle_controller_.law = cmd,
                       !.vehicle_controller_.mode = mode,
                       !.sender_data = cmd]
        ELSE s,
        "vehicle_controller_.Update", ok)

\* CanSender::Update: flushes the staged frames; the registered set stays.
SenderUpdate(s) == Call(s, "can_sender_.Update")
\* CanSender::Update_Heartbeat.
SenderUpdateHeartbeat(s) == Call(s, "can_sender_.Update_Heartbeat")
\* CanSender::ClearMessage: no message stays registered.
SenderClearMessage(s) ==
  Call([s EXCEPT !.can_sender_.msgs = {}], "can_sender_.ClearMessage")
\* CanSender::IsMessageClear.
SenderIsMessageClear(s) ==
  CallR(s, "can_sender_.IsMessageClear", s.can_sender_.msgs = {})
\* VehicleController::AddSendMessage: registers the controller's messages
\* with the sender it was initialized with.
ControllerAddSendMessage(s) ==
  Call([s EXCEPT !.can_sender_.msgs = @ \cup ProtocolSet],
       "vehicle_controller_.AddSendMessage")
\* VehicleController::CheckChassisCommunicationError.
ControllerCheckError(s, fault) ==
  CallR(s, "vehicle_controller_.CheckChassisCommunicationError", fault)

\* VehicleController::GetNewRecvChassisDetail / GetNewSenderChassisDetail:
\* copies of the codec's received and staged-for-send snapshots.
GetNewRecvChassisDetail(s) == [kind |-> "recv", val |-> s.recv_data]
GetNewSenderChassisDetail(s) == [kind |-> "sender", val |-> s.sender_data]

\* The controller reads the codec and the sender through the pointers its
\* Init stored: without them its accessors dereference null as well.
ControllerUsable(s) ==
  s.vehicle_controller_.id # 0 /\ s.vehicle_controller_.is_init

----------------------------------------------------------------------------
(* Neolix_eduVehicleFactory: the per-tick methods                          *)

\* UpdateCommand that has the controller register its messages again
\* before the flush.
UpdateCommandControlBodyRegisters(s, ok, cmd, mode, u) ==
  IF s.vehicle_controller_.id = 0 THEN Undefined(s, u.crash, "void") ELSE
  LET s1 == ControllerUpdate(s, ok, cmd, mode) IN
  IF ~s1.rc THEN Return(s1, "void") ELSE
  Return(SenderUpdate(ControllerAddSendMessage(s1)), "void")

UpdateCommandControlBody(s, ok, cmd, mode, u) ==
  IF s.vehicle_controller_.id = 0 THEN Undefined(s, u.crash, "void") ELSE
  LET s1 == ControllerUpdate(s, ok, cmd, mode) IN
  IF ~s1.rc THEN Return(s1, "void") ELSE
  Return(SenderUpdate(s1), "void")

\* UpdateCommand without the return after a failed Update.
UpdateCommandChassisBodyNoReturn(s, ok, cmd, mode, u) ==
  IF s.vehicle_controller_.id = 0 THEN Undefined(s, u.crash, "void") ELSE
  LET s1 == ControllerUpdate(s, ok, cmd, mode) IN
  Return(SenderUpdate(s1), "void")

UpdateCommandChassisBody(s, ok, cmd, mode, u) ==
  IF s.vehicle_controller_.id = 0 THEN Undefined(s, u.crash, "void") ELSE
  LET s1 == ControllerUpdate(s, ok, cmd, mode) IN
  IF ~s1.rc THEN Return(s1, "void") ELSE
  Return(SenderUpdate(s1), "void")

DoUpdateCommandControl ==
  /\ \E ok \in BOOLEAN, cmd \in Values, mode \in DrivingModes, u \in UBVoid :
       Facade("UpdateCommand(ControlCommand)",
              UpdateCommandControlBody(St, ok, cmd, mode, u))
  /\ UNCHANGED nInits

DoUpdateCommandChassis ==
  /\ \E ok \in BOOLEAN, cmd \in Values, mode \in DrivingModes, u \in UBVoid :
       Facade("UpdateCommand(ChassisCommand)",
              UpdateCommandChassisBody(St, ok, cmd, mode, u))
  /\ UNCHANGED nInits

\* publish_chassis that hands the vehicle back to the driver.
publish_chassisBodyResetsMode(s, u) ==
  IF s.vehicle_controller_.id = 0
  THEN Undefined(s, u.crash, "COMPLETE_MANUAL") ELSE
  Return(Call([s EXCEPT !.vehicle_controller_.mode = "COMPLETE_MANUAL"],
              "vehicle_controller_.chassis"), s.vehicle_controller_.mode)

publish_chassisBody(s, u) ==
  IF s.vehicle_controller_.id = 0
  THEN Undefined(s, u.crash, "COMPLETE_MANUAL") ELSE
  Return(Call(s, "vehicle_controller_.chassis"), s.vehicle_controller_.mode)

Dopublish_chassis ==
  /\ \E u \in UBVoid : Facade("publish_chassis", publish_chassisBody(St, u))
  /\ UNCHANGED nInits

PublishChassisDetailBody(s, u) ==
  IF ~ControllerUsable(s) THEN Undefined(s, u.crash, "void") ELSE
  LET chassis_detail == GetNewRecvChassisDetail(s)
      s1 == Call(s, "vehicle_controller_.GetNewRecvChassisDetail") IN
  IF ~s1.chassis_detail_writer_ THEN Undefined(s1, u.crash, "void") ELSE
  Return(CallA(s1, "chassis_detail_writer_.Write", TRUE, chassis_detail), "void")

DoPublishChassisDetail ==
  /\ \E u \in UBVoid :
       Facade("PublishChassisDetail", PublishChassisDetailBody(St, u))
  /\ UNCHANGED nInits

\* PublishChassisDetailSender that reads the received snapshot.
PublishChassisDetailSenderBodyRecv(s, u) ==
  IF ~ControllerUsable(s) THEN Undefined(s, u.crash, "void") ELSE
  LET sender_chassis_detail == GetNewRecvChassisDetail(s)
      s1 == Call(s, "vehicle_controller_.GetNewSenderChassisDetail") IN
  IF ~s1.chassis_detail_sender_writer_ THEN Undefined(s1, u.crash, "void") ELSE
  Return(CallA(s1, "chassis_detail_sender_writer_.Write", TRUE,
               sender_chassis_detail), "void")

PublishChassisDetailSenderBody(s, u) ==
  IF ~ControllerUsable(s) THEN Undefined(s, u.crash, "void") ELSE
  LET sender_chassis_detail == GetNewSenderChassisDetail(s)
      s1 == Call(s, "vehicle_controller_.GetNewSenderChassisDetail") IN
  IF ~s1.chassis_detail_sender_writer_ THEN Undefined(s1, u.crash, "void") ELSE
  Return(CallA(s1, "chassis_detail_sender_writer_.Write", TRUE,
               sender_chassis_detail), "void")

DoPublishChassisDetailSender ==
  /\ \E u \in UBVoid :
       Facade("PublishChassisDetailSender", PublishChassisDetailSenderBody(St, u))
  /\ UNCHANGED nInits

\* UpdateHeartbeat that also flushes the sender.
UpdateHeartbeatBodyFlushes(s) ==
  Return(SenderUpdate(SenderUpdateHeartbeat(s)), "void")

UpdateHeartbeatBody(s) == Return(SenderUpdateHeartbeat(s), "void")

DoUpdateHeartbeat ==
  /\ Facade("UpdateHeartbeat", UpdateHeartbeatBody(St))
  /\ UNCHANGED nInits

\* CheckChassisCommunicationFault that clears the sender when it sees a fault.
CheckChassisCommunicationFaultBodyRecovers(s, fault, u) ==
  IF s.vehicle_controller_.id = 0 THEN Undefined(s, u.crash, Bool(u.r)) ELSE
  LET s1 == ControllerCheckError(s, fault) IN
  IF s1.rc THEN Return(SenderClearMessage(s1), "true") ELSE Return(s1, "false")

CheckChassisCommunicationFaultBody(s, fault, u) ==
  IF s.vehicle_controller_.id = 0 THEN Undefined(s, u.crash, Bool(u.r)) ELSE
  LET s1 == ControllerCheckError(s, fault) IN
  IF s1.rc THEN Return(s1, "true") ELSE Return(s1, "false")

DoCheckChassisCommunicationFault ==
  /\ \E fault \in BOOLEAN, u \in UBBool :
       Facade("CheckChassisCommunicationFault",
              CheckChassisCommunicationFaultBody(St, fault, u))
  /\ UNCHANGED nInits

AddSendProtocolBody(s, u) ==
  IF ~ControllerUsable(s) THEN Undefined(s, u.crash, "void") ELSE
  Return(ControllerAddSendMessage(s), "void")

DoAddSendProtocol ==
  /\ \E u \in UBVoid : Facade("AddSendProtocol", AddSendProtocolBody(St, u))
  /\ UNCHANGED nInits

\* ClearSendProtocol that asks the sender whether it is clear instead.
ClearSendProtocolBodyAsks(s) == Return(SenderIsMessageClear(s), "void")

\* ClearSendProtocol that also stops the sender.
ClearSendProtocolBodyStops(s) ==
  Return(SenderStop(SenderClearMessage(s)), "void")

ClearSendProtocolBody(s) == Return(SenderClearMessage(s), "void")

DoClearSendProtocol ==
  /\ Facade("ClearSendProtocol", ClearSendProtocolBody(St))
  /\ UNCHANGED nInits

IsSendProtocolClearBody(s) ==
  LET s1 == SenderIsMessageClear(s) IN
  IF s1.rc THEN Return(s1, "true") ELSE Return(s1, "false")

DoIsSendProtocolClear ==
  /\ Facade("IsSendProtocolClear", IsSendProtocolClearBody(St))
  /\ UNCHANGED nInits

Driving_ModeBody(s, u) ==
  IF s.vehicle_controller_.id = 0
  THEN Undefined(s, u.crash, "COMPLETE_MANUAL") ELSE
  Return(Call(s, "vehicle_controller_.driving_mode"), s.vehicle_controller_.mode)

DoDriving_Mode ==
  /\ \E u \in UBVoid : Facade("Driving_Mode", Driving_ModeBody(St, u))
  /\ UNCHANGED nInits

----------------------------------------------------------------------------
(* The receive thread, running beside the caller of the facade: while the  *)
(* receiver runs it decodes frames into the codec's received snapshot.     *)

RecvThread ==
  /\ ~crashed
  /\ can_receiver_.running
  /\ can_receiver_.is_init
  /\ \E v \in Values \ {recv_data} : recv_data' = v
  /\ UNCHANGED <<can_client_, message_manager_, can_receiver_, can_sender_,
                 vehicle_controller_, node_, chassis_detail_writer_,
                 chassis_detail_sender_writer_, sender_data, nInits, lastOp,
                 calls, trail, phase, ret, ub, crashed, concVars>>

----------------------------------------------------------------------------

\* The two snapshots, received and staged-for-send, each of two fields. A
\* complete snapshot has the same content in both fields, so a copy with
\* two contents is a mix of two writes.
Kinds == {"recv", "sender"}
Untorn(snap) == snap[1] = snap[2]
Idle == [pc |-> "idle", kind |-> "recv", local |-> <<"v0", "v0">>,
         at_read |-> <<"v0", "v0">>]
Unwritten == [written |-> FALSE, msg |-> <<"v0", "v0">>,
              at_read |-> <<"v0", "v0">>, at_write |-> <<"v0", "v0">>]

\* Nobody is inside the codec and nothing has been published.
ConcIdle ==
  /\ codec = [k \in Kinds |-> <<"v0", "v0">>]
  /\ mutex = [k \in Kinds |-> "free"]
  /\ filler = [k \in Kinds |-> [pc |-> "idle", val |-> "v0"]]
  /\ publisher = Idle
  /\ channel = [k \in Kinds |-> Unwritten]

Init ==
  /\ can_client_ = NullClient
  /\ message_manager_ = 0
  /\ can_receiver_ = [is_init |-> FALSE, client |-> 0, mm |-> 0, running |-> FALSE]
  /\ can_sender_ = [is_init |-> FALSE, client |-> 0, mm |-> 0, running |-> FALSE,
                    msgs |-> {}]
  /\ vehicle_controller_ = NullController
  /\ node_ = FALSE
  /\ chassis_detail_writer_ = FALSE
  /\ chassis_detail_sender_writer_ = FALSE
  /\ recv_data = "v0"
  /\ sender_data = "v0"
  /\ nInits = 0
  /\ lastOp = "none"
  /\ calls = <<>>
  /\ trail = ""
  /\ phase = "uninit"
  /\ ret = "void"
  /\ ub = FALSE
  /\ crashed = FALSE
  /\ ConcIdle

Next ==
  \/ DoInit
  \/ DoStart
  \/ DoStop
  \/ DoUpdateCommandControl
  \/ DoUpdateCommandChassis
  \/ Dopublish_chassis
  \/ DoPublishChassisDetail
  \/ DoPublishChassisDetailSender
  \/ DoUpdateHeartbeat
  \/ DoCheckChassisCommunicationFault
  \/ DoAddSendProtocol
  \/ DoClearSendProtocol
  \/ DoIsSendProtocolClear
  \/ DoDriving_Mode
  \/ RecvThread

Spec == Init /\ [][Next]_vars

----------------------------------------------------------------------------
(* PublishChassisDetail and PublishChassisDetailSender statement by        *)
(* statement, beside the threads that fill the two snapshots. The object   *)
(* is the one a successful Init and a successful Start leave.              *)

Constructed ==
  [can_client_ |-> NullClient, message_manager_ |-> 0,
   can_receiver_ |-> [is_init |-> FALSE, client |-> 0, mm |-> 0, running |-> FALSE],
   can_sender_ |-> [is_init |-> FALSE, client |-> 0, mm |-> 0, running |-> FALSE,
                    msgs |-> {}],
   vehicle_controller_ |-> NullController, node_ |-> FALSE,
   chassis_detail_writer_ |-> FALSE, chassis_detail_sender_writer_ |-> FALSE,
   recv_data |-> "v0", sender_data |-> "v0",
   calls |-> <<>>, rc |-> TRUE, ret |-> "void", ub |-> FALSE, crashed |-> FALSE]

Started ==
  LET inited == InitBody(Constructed, [i \in 1..6 |-> TRUE], 1) IN
  StartBody([inited EXCEPT !.calls = <<>>], [i \in 1..4 |-> TRUE],
            [crash |-> FALSE, r |-> FALSE])

ConcInit ==
  /\ can_client_ = Started.can_client_
  /\ message_manager_ = Started.message_manager_
  /\ can_receiver_ = Started.can_receiver_
  /\ can_sender_ = Started.can_sender_
  /\ vehicle_controller_ = Started.vehicle_controller_
  /\ node_ = Started.node_
  /\ chassis_detail_writer_ = Started.chassis_detail_writer_
  /\ chassis_detail_sender_writer_ = Started.chassis_detail_sender_writer_
  /\ recv_data = Started.recv_data
  /\ sender_data = Started.sender_data
  /\ nInits = 1
  /\ lastOp = "Start"
  /\ calls = Started.calls
  /\ trail = ""
  /\ phase = "started"
  /\ ret = Started.ret
  /\ ub = Started.ub
  /\ crashed = Started.crashed
  /\ ConcIdle

seqVars ==
  <<can_client_, message_manager_, can_receiver_, can_sender_,
    vehicle_controller_, node_, chassis_detail_writer_,
    chassis_detail_sender_writer_, recv_data, sender_data, nInits,
    lastOp, calls, trail, phase, ret, ub, crashed>>

\* The thread that fills snapshot k (the receive thread decoding a frame,
\* the send thread encoding one) takes the snapshot's lock, ...
WriterBegin(k, v) ==
  /\ IF k = "recv" THEN can_receiver_.running ELSE can_sender_.running
  /\ filler[k].pc = "idle" /\ mutex[k] = "free"
  /\ mutex' = [mutex EXCEPT ![k] = "filler"]
  /\ filler' = [filler EXCEPT ![k] = [pc |-> "first", val |-> v]]
  /\ UNCHANGED <<codec, publisher, channel, seqVars>>

\* ... stores the first field, then the second, and gives the lock back.
WriterStore(k) ==
  /\ \/ /\ filler[k].pc = "first"
        /\ codec' = [codec EXCEPT ![k][1] = filler[k].val]
        /\ filler' = [filler EXCEPT ![k].pc = "second"]
        /\ UNCHANGED mutex
     \/ /\ filler[k].pc = "second"
        /\ codec' = [codec EXCEPT ![k][2] = filler[k].val]
        /\ filler' = [filler EXCEPT ![k].pc = "idle"]
        /\ mutex' = [mutex EXCEPT ![k] = "free"]
  /\ UNCHANGED <<publisher, channel, seqVars>>

\* vehicle_controller_->GetNewRecvChassisDetail() (k = "recv", called by
\* PublishChassisDetail) or GetNewSenderChassisDetail() (k = "sender", called
\* by PublishChassisDetailSender): the codec takes the snapshot's lock, ...
GetNewChassisDetail(k) ==
  /\ publisher.pc = "idle" /\ mutex[k] = "free"
  /\ ControllerUsable(St)
  /\ mutex' = [mutex EXCEPT ![k] = "scheduler"]
  /\ publisher' = [pc |-> "first", kind |-> k, local |-> <<"v0", "v0">>,
                   at_read |-> codec[k]]
  /\ UNCHANGED <<codec, filler, channel, seqVars>>

\* ... copies the snapshot field by field into the value it returns, which
\* the method keeps in its local chassis_detail, and gives the lock back.
CopyOut ==
  /\ \/ /\ publisher.pc = "first"
        /\ publisher' = [publisher EXCEPT !.local[1] = codec[publisher.kind][1],
                                          !.pc = "second"]
        /\ UNCHANGED mutex
     \/ /\ publisher.pc = "second"
        /\ publisher' = [publisher EXCEPT !.local[2] = codec[publisher.kind][2],
                                          !.pc = "copied"]
        /\ mutex' = [mutex EXCEPT ![publisher.kind] = "free"]
  /\ UNCHANGED <<codec, filler, channel, seqVars>>

\* Write that is handed the codec's snapshot itself, not the local copy.
WriteShared ==
  /\ publisher.pc = "copied"
  /\ channel' = [channel EXCEPT ![publisher.kind] =
                   [written |-> TRUE, msg |-> codec[publisher.kind],
                    at_read |-> publisher.at_read,
                    at_write |-> codec[publisher.kind]]]
  /\ publisher' = Idle
  /\ UNCHANGED <<codec, mutex, filler, seqVars>>

\* chassis_detail_writer_->Write(chassis_detail), or the sender writer's
\* Write(sender_chassis_detail): the local copy goes to the channel. What
\* the snapshot was when it was read and what it is now are kept beside it.
WriteLocal ==
  /\ publisher.pc = "copied"
  /\ channel' = [channel EXCEPT ![publisher.kind] =
                   [written |-> TRUE, msg |-> publisher.local,
                    at_read |-> publisher.at_read,
                    at_write |-> codec[publisher.kind]]]
  /\ publisher' = Idle
  /\ UNCHANGED <<codec, mutex, filler, seqVars>>

ConcNext ==
  \/ \E k \in Kinds, v \in Values : WriterBegin(k, v)
  \/ \E k \in Kinds : WriterStore(k)
  \/ \E k \in Kinds : GetNewChassisDetail(k)
  \/ CopyOut
  \/ WriteLocal

SpecConc == ConcInit /\ [][ConcNext]_vars

----------------------------------------------------------------------------
(* Properties                                                              *)

Fns(cs) == [i \in 1..Len(cs) |-> cs[i].fn]
IsPrefix(a, b) == Len(a) <= Len(b) /\ a = SubSeq(b, 1, Len(a))
\* A failed call is the last call of the method.
FailureIsLast(cs) == \A i \in 1..Len(cs) : ~cs[i].ok => i = Len(cs)
AllOk(cs) == \A i \in 1..Len(cs) : cs[i].ok

InitOrder ==
  <<"CreateCANClient", "CreateMessageManager", "can_receiver_.Init",
    "can_sender_.Init", "CreateVehicleController", "vehicle_controller_.Init",
    "CreateNode", "CreateWriter(chassis_detail)",
    "CreateWriter(chassis_detail_sender)">>
StartOrder ==
  <<"can_client_.Start", "can_receiver_.Start", "can_sender_.Start",
    "vehicle_controller_.Start">>
StopOrder ==
  <<"can_sender_.Stop", "can_receiver_.Stop", "can_client_.Stop",
    "vehicle_controller_.Stop">>

\* The sub-components that are running.
Running ==
  {c \in {"transport", "receiver", "sender", "controller"} :
     \/ c = "transport" /\ can_client_.running
     \/ c = "receiver" /\ can_receiver_.running
     \/ c = "sender" /\ can_sender_.running
     \/ c = "controller" /\ vehicle_controller_.running}
StartStage == <<"transport", "receiver", "sender", "controller">>

\* C1: when one of the six fallible steps of Init fails, Init returns false,
\* the failing step is the last thing Init did (no later collaborator call,
\* no channel registration), and the steps before it ran once each, in the
\* order 1..6.
C1_InitShortCircuits ==
  lastOp = "Init" =>
    /\ Len(calls) >= 1
    /\ IsPrefix(Fns(calls), InitOrder)
    /\ FailureIsLast(calls)
    /\ (~AllOk(calls)) => (ret = "false" /\ Len(calls) <= 6)
    /\ ret = "false" => ~AllOk(calls)

\* Init failed at its third step, the receiver's Init.
C1_Witness ==
  /\ lastOp = "Init" /\ ret = "false"
  /\ Len(calls) = 3 /\ ~calls[3].ok /\ calls[1].ok /\ calls[2].ok

\* C2: a Start on constructed sub-components starts the transport, the
\* receiver, the sender and the controller in that order, each at most once;
\* the first start that fails ends the call with false and no later stage is
\* tried; what this call started stays running; true is returned only when
\* all four started.
C2_StartSequence ==
  lastOp = "Start" =>
    /\ IsPrefix(Fns(calls), StartOrder)
    /\ FailureIsLast(calls)
    /\ \A i \in 1..Len(calls) : calls[i].ok => StartStage[i] \in Running
    /\ ~ub => /\ Len(calls) >= 1
              /\ ret = "true" <=> (Len(calls) = 4 /\ AllOk(calls))
              /\ ret = "false" <=> ~AllOk(calls)

\* The sender did not start: the transport and the receiver are left running.
C2_Witness ==
  /\ lastOp = "Start" /\ ~ub /\ ret = "false"
  /\ Len(calls) = 3 /\ ~calls[3].ok
  /\ Running = {"transport", "receiver"}

\* C3: a Stop on constructed sub-components stops the sender, the receiver,
\* the transport and the controller, in that order, whichever of them were
\* running and whether or not each had anything to stop, and returns nothing.
C3_StopSequence ==
  (lastOp = "Stop" /\ ~ub) =>
    /\ Fns(calls) = StopOrder
    /\ ret = "void"
    /\ ~crashed

\* A Stop after a Start that got as far as the receiver: the sender's Stop
\* had nothing to stop, the receiver's and the transport's did.
C3_Witness ==
  /\ lastOp = "Stop" /\ ~ub
  /\ Len(calls) = 4
  /\ ~calls[1].ok /\ calls[2].ok /\ calls[3].ok /\ ~calls[4].ok

\* C4 as stated: in every state a Stop comes back without a crash and with
\* nothing left running.
C4_StopSafeInEveryState ==
  lastOp = "Stop" => (~crashed /\ ~ub /\ Running = {})

\* C5 as stated: a Start while can_client_ or vehicle_controller_ is null
\* returns false and dereferences neither.
C5_StartOnNullFails ==
  (lastOp = "Start" /\ (can_client_.id = 0 \/ vehicle_controller_.id = 0)) =>
    (ret = "false" /\ ~ub /\ ~crashed)

\* What step i of Init leaves behind when it succeeds.
StepEffect(i) ==
  CASE i = 1 -> can_client_.id # 0
    [] i = 2 -> message_manager_ # 0
    [] i = 3 -> /\ can_receiver_.is_init
                /\ can_receiver_.client = can_client_.id
                /\ can_receiver_.mm = message_manager_
    [] i = 4 -> /\ can_sender_.is_init
                /\ can_sender_.client = can_client_.id
                /\ can_sender_.mm = message_manager_
    [] i = 5 -> vehicle_controller_.id # 0
    [] OTHER -> TRUE

\* C6 as stated: after an Init that returned false nothing is running and the
\* orchestrator holds no handle, codec, initialized receiver or sender, or
\* controller.
C6_InitFailureLeavesNothing ==
  (lastOp = "Init" /\ ret = "false") =>
    /\ Running = {}
    /\ can_client_.id = 0 /\ message_manager_ = 0
    /\ ~can_receiver_.is_init /\ ~can_sender_.is_init
    /\ vehicle_controller_.id = 0

\* C6, amended: an Init that returns false has started nothing (whatever runs
\* after it ran before it), and it undoes nothing: what every step before the
\* failing one built and wired is still held by the orchestrator.
C6_InitFailureKeepsWiring ==
  [][(nInits' # nInits /\ ret' = "false") =>
       /\ Running' \subseteq Running
       /\ \A i \in 1..Len(calls') : calls'[i].ok => StepEffect(i)']_vars

\* Init failed at the controller's constructor: the handle, the codec and the
\* wired receiver and sender stay.
C6_Witness ==
  /\ lastOp = "Init" /\ ret = "false" /\ Len(calls) = 5
  /\ can_client_.id # 0 /\ message_manager_ # 0
  /\ can_receiver_.is_init /\ can_sender_.is_init
  /\ can_sender_.client = can_client_.id

\* C7: either UpdateCommand on a constructed controller calls the
\* controller's Update once; when Update fails the sender's Update is not
\* called, when it succeeds the sender's Update is called once, after it.
\* This holds for every call, one that follows a failed call included.
C7_UpdateThenFlush ==
  (lastOp \in UpdateCommandOps /\ ~ub) =>
    /\ Len(calls) >= 1
    /\ calls[1].fn = "vehicle_controller_.Update"
    /\ ~calls[1].ok => Len(calls) = 1
    /\ calls[1].ok =>
         Fns(calls) = <<"vehicle_controller_.Update", "can_sender_.Update">>

\* A ChassisCommand whose Update succeeded, right after an UpdateCommand
\* whose Update failed: it is flushed.
C7_Witness ==
  /\ lastOp = "UpdateCommand(ChassisCommand)" /\ ~ub
  /\ trail = "UFO" /\ Len(calls) = 2 /\ calls[1].ok

\* C8: IsSendProtocolClear returns true right after ClearSendProtocol, false
\* right after an AddSendProtocol that followed a ClearSendProtocol of a
\* non-empty set; it returns true exactly when the sender has no message
\* registered, and it changes nothing.
C8_ProtocolClear ==
  /\ [](/\ trail = "CI" => ret = "true"
        /\ trail = "CAI" => ret = "false"
        /\ lastOp = "IsSendProtocolClear" =>
             (ret = "true" <=> can_sender_.msgs = {}))
  /\ [][DoIsSendProtocolClear =>
          UNCHANGED <<can_client_, message_manager_, can_receiver_, can_sender_,
                      vehicle_controller_, node_, chassis_detail_writer_,
                      chassis_detail_sender_writer_, recv_data, sender_data,
                      nInits, crashed>>]_vars

\* Clear of a non-empty set, AddSendProtocol, IsSendProtocolClear: false.
C8_Witness ==
  lastOp = "IsSendProtocolClear" /\ trail = "CAI" /\ ret = "false"

RecvRead == [fn |-> "vehicle_controller_.GetNewRecvChassisDetail", ok |-> TRUE,
             arg |-> NoMessage]
SenderRead == [fn |-> "vehicle_controller_.GetNewSenderChassisDetail", ok |-> TRUE,
               arg |-> NoMessage]
Write(writer, msg) == [fn |-> writer, ok |-> TRUE, arg |-> msg]

\* C9: PublishChassisDetail makes one Write, of the received snapshot as it is
\* at the call, to the received-state writer; PublishChassisDetailSender makes
\* one Write, of the staged-for-send snapshot as it is at the call, to the
\* sender-state writer; neither writes to the other's channel, whatever
\* happened to the snapshots between the two calls.
C9_PublishChannels ==
  [][/\ (DoPublishChassisDetail /\ ~ub') =>
          calls' = <<RecvRead,
                     Write("chassis_detail_writer_.Write",
                           [kind |-> "recv", val |-> recv_data])>>
     /\ (DoPublishChassisDetailSender /\ ~ub') =>
          calls' = <<SenderRead,
                     Write("chassis_detail_sender_writer_.Write",
                           [kind |-> "sender", val |-> sender_data])>>]_vars

\* The sender snapshot is published while the received snapshot differs.
C9_Witness ==
  /\ lastOp = "PublishChassisDetailSender" /\ ~ub
  /\ Len(calls) = 2
  /\ calls[2].arg = [kind |-> "sender", val |-> sender_data]
  /\ sender_data # recv_data

\* C10: publish_chassis, PublishChassisDetail and PublishChassisDetailSender
\* leave the controller (driving mode, control law, running), the sender (its
\* registered messages, running), the receiver and the transport as they
\* were.
C10_PublishReadOnly ==
  [][(Dopublish_chassis \/ DoPublishChassisDetail \/ DoPublishChassisDetailSender)
       => UNCHANGED <<vehicle_controller_, can_sender_, can_receiver_,
                      can_client_, message_manager_, recv_data, sender_data>>]_vars

\* publish_chassis while everything runs in automatic mode.
C10_Witness ==
  /\ lastOp = "publish_chassis" /\ ~ub
  /\ ret = "COMPLETE_AUTO_DRIVE"
  /\ vehicle_controller_.mode = "COMPLETE_AUTO_DRIVE"
  /\ Running = {"transport", "receiver", "sender", "controller"}
  /\ can_sender_.msgs # {}

\* The variables of the orchestrator and of its sub-components.
ObjectVars ==
  <<can_client_, message_manager_, can_receiver_, can_sender_,
    vehicle_controller_, node_, chassis_detail_writer_,
    chassis_detail_sender_writer_, recv_data, sender_data, nInits>>

\* C11: CheckChassisCommunicationFault on a constructed controller asks the
\* controller's CheckChassisCommunicationError once, returns true exactly
\* when that reports an error, makes no other call (no Stop, no clear, no
\* flush) and leaves the orchestrator, the sender and every sub-component as
\* they were.
C11_FaultCheckObserves ==
  /\ []((lastOp = "CheckChassisCommunicationFault" /\ ~ub) =>
          /\ Fns(calls) = <<"vehicle_controller_.CheckChassisCommunicationError">>
          /\ ret = "true" <=> calls[1].ok
          /\ ret \in {"true", "false"})
  /\ [][DoCheckChassisCommunicationFault => UNCHANGED ObjectVars]_vars

\* A fault is reported while everything runs: all of it is still running and
\* the sender still has its messages.
C11_Witness ==
  /\ lastOp = "CheckChassisCommunicationFault" /\ ~ub /\ ret = "true"
  /\ Running = {"transport", "receiver", "sender", "controller"}
  /\ can_sender_.msgs # {}

\* C12: Init returns true exactly when its six fallible steps all succeed;
\* the node and the two writers are created only in that call, after the
\* controller's Init; and the controller is then wired to the sender and to
\* the codec that the receiver and the sender were given.
C12_InitSuccess ==
  lastOp = "Init" =>
    /\ ret = "true" <=> (Len(calls) >= 6 /\ \A i \in 1..6 : calls[i].ok)
    /\ IsPrefix(Fns(calls), InitOrder)
    /\ (\E i \in 1..Len(calls) : calls[i].fn \in {InitOrder[7], InitOrder[8], InitOrder[9]})
         => (ret = "true" /\ Len(calls) = 9)
    /\ ret = "true" =>
         /\ Len(calls) = 9
         /\ node_ /\ chassis_detail_writer_ /\ chassis_detail_sender_writer_
         /\ vehicle_controller_.is_init /\ vehicle_controller_.sender
         /\ message_manager_ # 0
         /\ vehicle_controller_.mm = message_manager_
         /\ can_receiver_.mm = message_manager_
         /\ can_sender_.mm = message_manager_

\* A second Init succeeded.
C12_Witness ==
  lastOp = "Init" /\ ret = "true" /\ Len(calls) = 9 /\ message_manager_ = 2

\* An UpdateCommand got as far as the sender's Update.
Flushed ==
  /\ lastOp \in UpdateCommandOps /\ ~ub
  /\ Len(calls) = 2 /\ calls[2].fn = "can_sender_.Update"

\* C13 as stated: in every state, when an UpdateCommand has flushed, the
\* transport, the receiver and the sender are running; and the receiver never
\* runs while there is no codec.
C13_NoFlushBeforeLive ==
  /\ Flushed => {"transport", "receiver", "sender"} \subseteq Running
  /\ can_receiver_.running => message_manager_ # 0

\* C13, amended: once a Start has returned true after an Init that returned
\* true, and until the next Stop or Init, all four sub-components are running
\* and the codec exists and is the receiver's; so an UpdateCommand that
\* flushes in that span finds the transport, the receiver and the sender
\* started.  UpdateCommand does not look at the lifecycle itself.
C13_FlushWhileStarted ==
  /\ phase = "started" =>
       /\ Running = {"transport", "receiver", "sender", "controller"}
       /\ message_manager_ # 0
       /\ can_receiver_.mm = message_manager_
  /\ (Flushed /\ phase = "started") =>
       {"transport", "receiver", "sender"} \subseteq Running

\* A flush between a successful Start and the next Stop.
C13_Witness ==
  Flushed /\ phase = "started" /\ can_receiver_.running /\ can_sender_.running

\* The per-tick calls that neither clear nor register: the two UpdateCommand
\* overloads, UpdateHeartbeat, the three publish methods, the fault check,
\* and the two queries.
TickOps ==
  UpdateCommandOps \cup
  {"UpdateHeartbeat", "publish_chassis", "PublishChassisDetail",
   "PublishChassisDetailSender", "CheckChassisCommunicationFault",
   "IsSendProtocolClear", "Driving_Mode"}

\* C14: ClearSendProtocol leaves the sender with no registered message; an
\* empty set stays empty over every UpdateCommand, UpdateHeartbeat, publish
\* call, fault check and query (a step that ends with one of them as the
\* last call), and over the receive thread, and IsSendProtocolClear answers
\* true for it; AddSendProtocol on an initialized controller registers the
\* controller's messages again.
C14_ProtocolSetMachine ==
  /\ [][lastOp' = "ClearSendProtocol" => can_sender_'.msgs = {}]_vars
  /\ [][(can_sender_.msgs = {} /\ lastOp' \in TickOps) =>
          can_sender_'.msgs = {}]_vars
  /\ [][RecvThread => can_sender_' = can_sender_]_vars
  /\ [][(lastOp' = "AddSendProtocol" /\ ~ub') =>
          can_sender_'.msgs = ProtocolSet]_vars
  /\ []((lastOp = "IsSendProtocolClear" /\ can_sender_.msgs = {}) =>
          ret = "true")

\* A flushed ControlCommand while the set, registered by the controller's
\* Init, is empty after a ClearSendProtocol, with everything running.
C14_Witness ==
  /\ Flushed /\ lastOp = "UpdateCommand(ControlCommand)"
  /\ vehicle_controller_.is_init /\ can_sender_.msgs = {}
  /\ phase = "started"

\* C16: every UpdateHeartbeat calls the sender's Update_Heartbeat once and
\* nothing else (not the controller's Update, not the sender's Update),
\* whatever came before it, a failed UpdateCommand included; it leaves the
\* controller, the staged command and the sender as they were.
C16_HeartbeatIndependent ==
  /\ [](lastOp = "UpdateHeartbeat" =>
          /\ Fns(calls) = <<"can_sender_.Update_Heartbeat">>
          /\ ret = "void" /\ ~ub)
  /\ [][lastOp' = "UpdateHeartbeat" =>
          UNCHANGED <<vehicle_controller_, can_sender_, sender_data>>]_vars

\* An UpdateHeartbeat right after an UpdateCommand whose Update failed.
C16_Witness ==
  lastOp = "UpdateHeartbeat" /\ trail = "UFH" /\ Len(calls) = 1

\* The running sub-components are the first k of the start order.
RunningIsPrefix ==
  \E k \in 0..Len(StartStage) : Running = {StartStage[i] : i \in 1..k}

\* C17: after the first Init, when it returned true, and over the Start and
\* Stop calls that follow it, failed Starts and Starts after a failed Start
\* included, the running sub-components are a prefix of transport, receiver,
\* sender, controller; and after any Init that returned true, a Start or a
\* Stop that finds a prefix running leaves a prefix running.
C17_RunningIsPrefix ==
  /\ []((nInits = 1 /\ phase # "uninit") => RunningIsPrefix)
  /\ [][(lastOp' \in {"Start", "Stop"} /\ phase # "uninit" /\ RunningIsPrefix)
          => RunningIsPrefix']_vars

\* After one Init, a Start failed, and the Start right after it failed at
\* the controller: transport, receiver and sender run, the controller not.
C17_Witness ==
  /\ nInits = 1 /\ phase = "inited"
  /\ lastOp = "Start" /\ trail = "TFT" /\ ret = "false"
  /\ Running = {"transport", "receiver", "sender"}

\* C18: whenever the most recent Init returned true, whatever Init calls and
\* other calls came before and after it, the orchestrator holds a transport
\* handle and a codec, the receiver, the sender and the controller point to
\* that codec, the receiver and the sender to that handle, and the
\* controller is the one initialized with the sender.
C18_WiredToCurrent ==
  phase # "uninit" =>
    /\ can_client_.id # 0 /\ message_manager_ # 0
    /\ vehicle_controller_.id # 0
    /\ can_receiver_.mm = message_manager_
    /\ can_sender_.mm = message_manager_
    /\ vehicle_controller_.mm = message_manager_
    /\ can_receiver_.client = can_client_.id
    /\ can_sender_.client = can_client_.id
    /\ vehicle_controller_.is_init /\ vehicle_controller_.sender

\* A second Init returned true while the receiver and the sender, started
\* after the first Init, run: they are wired to the second handle and codec.
C18_Witness ==
  /\ lastOp = "Init" /\ ret = "true" /\ nInits = 2
  /\ can_receiver_.running /\ can_sender_.running
  /\ can_client_.id = 2 /\ message_manager_ = 2
  /\ can_receiver_.client = 2 /\ can_sender_.mm = 2

\* The methods other than Init, Start and Stop.
OtherOps == TickOps \cup {"AddSendProtocol", "ClearSendProtocol"}

\* C19: a call of UpdateCommand, publish_chassis, PublishChassisDetail,
\* PublishChassisDetailSender, UpdateHeartbeat,
\* CheckChassisCommunicationFault, AddSendProtocol, ClearSendProtocol,
\* IsSendProtocolClear or Driving_Mode starts nothing and stops nothing, and
\* the orchestrator holds the same transport handle, codec and controller
\* after it as before it.
C19_OnlyStartStopChangeLifecycle ==
  [][lastOp' \in OtherOps =>
       /\ can_client_' = can_client_
       /\ message_manager_' = message_manager_
       /\ vehicle_controller_'.id = vehicle_controller_.id
       /\ vehicle_controller_'.running = vehicle_controller_.running
       /\ can_receiver_'.running = can_receiver_.running
       /\ can_sender_'.running = can_sender_.running
       /\ Running' = Running]_vars

\* A ClearSendProtocol while all four sub-components run.
C19_Witness ==
  /\ lastOp = "ClearSendProtocol" /\ phase = "started"
  /\ Running = {"transport", "receiver", "sender", "controller"}
  /\ can_sender_.msgs = {}

\* C15: with the threads that fill the snapshots running beside the
\* scheduler thread, the message PublishChassisDetail (and
\* PublishChassisDetailSender) writes to its channel equals the snapshot as
\* it was at the instant the read took the lock; it is complete, never part
\* of one write and part of another; and so is the local copy between the
\* read and the Write, whatever is stored into the snapshot meanwhile.
C15_PublishedIsSnapshot ==
  /\ \A k \in Kinds :
       channel[k].written =>
         /\ channel[k].msg = channel[k].at_read
         /\ Untorn(channel[k].msg)
  /\ publisher.pc = "copied" =>
       /\ publisher.local = publisher.at_read
       /\ Untorn(publisher.local)

\* A received snapshot was published that the receive thread had replaced
\* between the read and the Write: the channel got the one that was read.
C15_Witness ==
  /\ channel["recv"].written
  /\ channel["recv"].at_write # channel["recv"].at_read
  /\ channel["recv"].msg = channel["recv"].at_read
  /\ channel["sender"].written
====
